---------------------------- MODULE Spec2Model ----------------------------
(***************************************************************************)
(* JetEngine: the per-user link store (internal/storage/badger.go) over   *)
(* the embedded ordered key-value engine.                                  *)
(*                                                                         *)
(* Keys and urls are byte strings, modelled as sequences of byte codes so  *)
(* that prefix tests and the engine's byte-wise key order are computed,    *)
(* not assumed.  Stored values are the JSON objects json.Marshal writes    *)
(* for a domain.Link, modelled as functions from JSON member names to      *)
(* member values (members tagged omitempty are absent when empty).         *)
(*                                                                         *)
(* The engine is a healthy one: a transaction fails only because the       *)
(* engine was closed.                                                      *)
(***************************************************************************)
EXTENDS Integers, Sequences, FiniteSets, TLC

VARIABLES
    db,        \* the engine's committed entries: key (bytes) -> value (JSON object)
    isClosed,  \* the engine handle has been closed (BadgerRepository.Close)
    last,      \* the call that returned last: operation, arguments, results
    prev,      \* history: the entries when the call that returned last was made
    live,      \* history: (userID, url) -> the record of its most recent successful
               \* SaveLink, for the pairs not deleted since
    ctxDone,   \* history: the context of the call that returned last was cancelled
    reader,    \* a GetLinksByUser in flight: its read transaction and its iterator
    versions,  \* history: the entries committed since the transaction of the
               \* reader began, those it began on included
    gcRunning, \* the goroutine of the value log garbage collection is running
    call,      \* a function applied on its own (codec, key scheme, scraper): its
               \* argument and, step by step, its results
    writers    \* the SaveLink and DeleteLink calls of concurrent goroutines: what
               \* each was called with, how far it is, its write transaction

vars == <<db, isClosed, last, prev, live, ctxDone, reader, versions, gcRunning, call,
          writers>>

---------------------------------------------------------------------------
(* Bounds of the model *)

\* time.Now() reads an instant in 1..MaxNow.
MaxNow == 2

\* at most MaxWritesInRead states of the entries are committed while one
\* GetLinksByUser is in flight.
MaxWritesInRead == 2

---------------------------------------------------------------------------
(* Inputs *)

\* userIDs, one a decimal prefix of the other
UserIDs == {1, 12}

\* urls as bytes: "", "a", "b"
URLs == { <<>>, <<97>>, <<98>> }

\* the (userID, url) pairs callers save: three urls of user 12, and a url that
\* users 1 and 12 both save
SavedPairs == { <<12, <<>>>>, <<12, <<97>>>>, <<12, <<98>>>>, <<1, <<97>>>> }

\* time.Time: the instant, whether it carries a monotonic clock reading, and
\* whether its year lies in [0, 9999] (what Time.MarshalJSON accepts).
\* Instant 0 is the zero value.
ZeroTime == [inst |-> 0, mono |-> FALSE, yearInRange |-> TRUE]

\* the instants time.Now() may read
NowInstants == 1..MaxNow

\* []string: nil, or a slice with elements (possibly none)
NilTags == [isNil |-> TRUE, elems |-> <<>>]

\* the timestamp and metadata of the records callers save: no timestamp; a
\* timestamp and every optional field; a timestamp and an empty, non-nil tag
\* list; a timestamp json cannot encode
Samples ==
    { [Timestamp |-> ZeroTime,
       Title |-> "t1", Description |-> "d1", Tags |-> NilTags,
       Read |-> FALSE, PreviewImageURL |-> ""],
      [Timestamp |-> [inst |-> 2, mono |-> TRUE, yearInRange |-> TRUE],
       Title |-> "t2", Description |-> "d2", Tags |-> [isNil |-> FALSE, elems |-> <<"x">>],
       Read |-> TRUE, PreviewImageURL |-> "p"],
      [Timestamp |-> [inst |-> 1, mono |-> FALSE, yearInRange |-> TRUE],
       Title |-> "t1", Description |-> "d1", Tags |-> [isNil |-> FALSE, elems |-> <<>>],
       Read |-> FALSE, PreviewImageURL |-> ""],
      [Timestamp |-> [inst |-> 3, mono |-> FALSE, yearInRange |-> FALSE],
       Title |-> "t2", Description |-> "d2", Tags |-> NilTags,
       Read |-> FALSE, PreviewImageURL |-> ""] }

\* domain.Link
Link(url, userID, m) ==
    [URL |-> url, Title |-> m.Title, Description |-> m.Description,
     UserID |-> userID, Timestamp |-> m.Timestamp, Tags |-> m.Tags, Read |-> m.Read,
     PreviewImageURL |-> m.PreviewImageURL]

\* the records callers save
Links == { Link(p[2], p[1], m) : p \in SavedPairs, m \in Samples }

---------------------------------------------------------------------------
(* Errors: an error is its chain of messages, outermost first; nil is <<>> *)

NoError == <<>>

ErrDBClosed == "DB Closed"

ErrYearOutOfRange == "Time.MarshalJSON: year outside of range [0,9999]"

\* fmt.Errorf("...: %w", err)
Wrap(msg, err) == <<msg>> \o err

\* errors.Is(err, target)
ErrorsIs(err, target) == \E i \in 1..Len(err) : err[i] = target

---------------------------------------------------------------------------
(* Key scheme *)

\* fmt.Sprintf("%d", n) for n >= 0, as bytes
RECURSIVE FormatDigits(_)
FormatDigits(n) ==
    IF n < 10 THEN <<48 + n>>
    ELSE FormatDigits(n \div 10) \o <<48 + (n % 10)>>

\* fmt.Sprintf("%d", n), as bytes
FormatInt(n) == IF n < 0 THEN <<45>> \o FormatDigits(-n) ELSE FormatDigits(n)

\* "user:%d:link:" without the trailing delimiter literal
generateUserPrefix_noDelimiter(userID) ==
    <<117, 115, 101, 114, 58>> \o FormatInt(userID)

\* "user:%d:link:"
generateUserPrefix(userID) ==
    <<117, 115, 101, 114, 58>> \o FormatInt(userID) \o <<58, 108, 105, 110, 107, 58>>

\* "user:%d%s": nothing between the user id and the url
generateLinkKey_noDelimiter(userID, linkURL) ==
    <<117, 115, 101, 114, 58>> \o FormatInt(userID) \o linkURL

\* "user:%d:link:%s"
generateLinkKey(userID, linkURL) ==
    <<117, 115, 101, 114, 58>> \o FormatInt(userID) \o <<58, 108, 105, 110, 107, 58>> \o linkURL

\* bytes.HasPrefix
HasPrefix(s, prefix) ==
    /\ Len(prefix) <= Len(s)
    /\ \A i \in 1..Len(prefix) : s[i] = prefix[i]

\* bytes.Compare(a, b) < 0, given that a and b agree before position i
RECURSIVE BytesLessFrom(_, _, _)
BytesLessFrom(a, b, i) ==
    IF i > Len(a) THEN i <= Len(b)
    ELSE IF i > Len(b) THEN FALSE
    ELSE IF a[i] = b[i] THEN BytesLessFrom(a, b, i + 1)
    ELSE a[i] < b[i]

\* bytes.Compare(a, b) < 0: the engine's key order
BytesLess(a, b) == BytesLessFrom(a, b, 1)

---------------------------------------------------------------------------
(* Record codec: encoding/json on domain.Link *)

\* Time.IsZero
IsZero(t) == t.inst = 0

\* Time.After.  Only decoded times are compared, and they carry no monotonic
\* reading, so the comparison is on the instants.
\* (an instant is also after itself)
After_orEqual(t, u) == t.inst >= u.inst

After(t, u) == t.inst > u.inst

\* time.Now(), reading instant now
Now(now) == [inst |-> now, mono |-> TRUE, yearInRange |-> TRUE]

\* a string as json.Marshal writes it and json.Unmarshal reads it back: every
\* byte that is not part of a valid UTF-8 encoding becomes U+FFFD.  The strings
\* of the model hold ASCII bytes and the byte 255, which no valid encoding has.
RECURSIVE ToValidUTF8(_)
ToValidUTF8(b) ==
    IF b = <<>> THEN <<>>
    ELSE (IF Head(b) < 128 THEN <<Head(b)>> ELSE <<239, 191, 189>>) \o ToValidUTF8(Tail(b))

\* the members json.Marshal always writes for a Link
JSONRequired(link) ==
    [url |-> ToValidUTF8(link.URL), title |-> link.Title, description |-> link.Description,
     user_id |-> link.UserID, timestamp |-> link.Timestamp.inst, read |-> link.Read]

\* the preview image url is never written
JSONOptional_dropPreview(link) ==
    IF Len(link.Tags.elems) > 0 THEN [tags |-> link.Tags.elems] ELSE [x \in {} |-> x]

\* the members tagged omitempty: written only when not empty
JSONOptional(link) ==
    LET tags == IF Len(link.Tags.elems) > 0
                THEN [tags |-> link.Tags.elems] ELSE [x \in {} |-> x]
        preview == IF link.PreviewImageURL # ""
                   THEN [preview_image_url |-> link.PreviewImageURL] ELSE [x \in {} |-> x]
    IN  tags @@ preview

\* json.Marshal(link): fails only in Time.MarshalJSON
Marshal(link) ==
    IF ~link.Timestamp.yearInRange
    THEN [err |-> <<ErrYearOutOfRange>>, bytes |-> [x \in {} |-> x]]
    ELSE [err |-> NoError, bytes |-> JSONRequired(link) @@ JSONOptional(link)]

\* bytes that are not a whole JSON text: a value cut short
Truncated == [truncated |-> TRUE]

\* the SyntaxError of json.Unmarshal for such bytes
ErrUnexpectedEnd == "unexpected end of JSON input"

\* var link domain.Link
ZeroLink ==
    [URL |-> <<>>, Title |-> "", Description |-> "", UserID |-> 0,
     Timestamp |-> ZeroTime, Tags |-> NilTags, Read |-> FALSE, PreviewImageURL |-> ""]

\* json.Unmarshal(val, &link): a syntax error for bytes that are not JSON;
\* absent members leave the zero value
Unmarshal(val) ==
    IF "truncated" \in DOMAIN val
    THEN [err |-> <<ErrUnexpectedEnd>>, link |-> ZeroLink]
    ELSE
    [err |-> NoError,
     link |-> [URL |-> val.url, Title |-> val.title, Description |-> val.description,
               UserID |-> val.user_id,
               Timestamp |-> [inst |-> val.timestamp, mono |-> FALSE, yearInRange |-> TRUE],
               Tags |-> IF "tags" \in DOMAIN val
                        THEN [isNil |-> FALSE, elems |-> val.tags] ELSE NilTags,
               Read |-> val.read,
               PreviewImageURL |-> IF "preview_image_url" \in DOMAIN val
                                   THEN val.preview_image_url ELSE ""]]

---------------------------------------------------------------------------
(* The engine's transactions, as the store uses them *)

\* txn.SetEntry keeps the stored value when the key exists
SetEntry_keepExisting(d, key, val) ==
    [k \in DOMAIN d \cup {key} |-> IF k \in DOMAIN d THEN d[k] ELSE val]

\* txn.SetEntry writes the members of val into the stored object, which keeps
\* the members val does not have
SetEntry_mergeMembers(d, key, val) ==
    [k \in DOMAIN d \cup {key} |->
        IF k # key THEN d[k] ELSE IF k \in DOMAIN d THEN val @@ d[k] ELSE val]

\* txn.SetEntry(badger.NewEntry(key, val)): insert or overwrite
SetEntry(d, key, val) ==
    [k \in DOMAIN d \cup {key} |-> IF k = key THEN val ELSE d[k]]

\* txn.Delete removes every key that begins with key
Delete_byPrefix(d, key) ==
    [k \in {x \in DOMAIN d : ~HasPrefix(x, key)} |-> d[k]]

\* txn.Delete(key): no error when the key is not stored
Delete(d, key) ==
    [k \in DOMAIN d \ {key} |-> d[k]]

\* db.Update commits also on a closed engine
Update_ignoreClosed(closed, d, written) ==
    [err |-> NoError, db |-> written]

\* db.Update(fn): ErrDBClosed on a closed engine, else fn's writes are committed
Update(closed, d, written) ==
    IF closed THEN [err |-> <<ErrDBClosed>>, db |-> d]
    ELSE [err |-> NoError, db |-> written]

\* the keys of S in the engine's order
RECURSIVE SortedKeys(_)
SortedKeys(S) ==
    IF S = {} THEN <<>>
    ELSE LET m == CHOOSE k \in S : \A o \in S \ {k} : BytesLess(k, o)
         IN  <<m>> \o SortedKeys(S \ {m})

\* it.Rewind(): the iteration starts at the first key of the engine
Seek_rewind(keys, prefix) == keys

\* it.Seek(prefix): the keys from the first one that is >= prefix
RECURSIVE Seek(_, _)
Seek(keys, prefix) ==
    IF keys # <<>> /\ BytesLess(Head(keys), prefix) THEN Seek(Tail(keys), prefix)
    ELSE keys

---------------------------------------------------------------------------
(* BadgerRepository *)

\* SaveLink stamps every record with the current time
Stamp_always(link, now) == [link EXCEPT !.Timestamp = now]

\* SaveLink, "Ensure timestamp is set"
Stamp(link, now) ==
    IF IsZero(link.Timestamp) THEN [link EXCEPT !.Timestamp = now] ELSE link

\* SaveLink rejects a record without userID or url
SaveLinkResult_validate(closed, d, now, link) ==
    LET stamped == Stamp(link, now)
        m == Marshal(stamped)
        key == generateLinkKey(link.UserID, link.URL)
        u == Update(closed, d, SetEntry(d, key, m.bytes))
    IN  IF link.UserID = 0 \/ link.URL = <<>>
        THEN [err |-> <<"invalid link">>, db |-> d]
        ELSE IF m.err # NoError
        THEN [err |-> Wrap("failed to marshal link", m.err), db |-> d]
        ELSE IF u.err # NoError
        THEN [err |-> Wrap("failed to save link", u.err), db |-> d]
        ELSE [err |-> NoError, db |-> u.db]

\* SaveLink: the error returned and the entries afterwards
SaveLinkResult(closed, d, now, link) ==
    LET stamped == Stamp(link, now)
        m == Marshal(stamped)
        key == generateLinkKey(link.UserID, link.URL)
        u == Update(closed, d, SetEntry(d, key, m.bytes))
    IN  IF m.err # NoError
        THEN [err |-> Wrap("failed to marshal link", m.err), db |-> d]
        ELSE IF u.err # NoError
        THEN [err |-> Wrap("failed to save link", u.err), db |-> d]
        ELSE [err |-> NoError, db |-> u.db]

\* the loop stops after the first item
ScanLoop_firstOnly(d, keys, prefix, links) ==
    IF keys = <<>> \/ ~HasPrefix(Head(keys), prefix)
    THEN [err |-> NoError, links |-> links]
    ELSE [err |-> NoError, links |-> Append(links, Unmarshal(d[Head(keys)]).link)]

\* the loop skips an item it cannot decode and goes on
RECURSIVE ScanLoop_skipUndecodable(_, _, _, _)
ScanLoop_skipUndecodable(d, keys, prefix, links) ==
    IF keys = <<>> \/ ~HasPrefix(Head(keys), prefix)
    THEN [err |-> NoError, links |-> links]
    ELSE LET u == Unmarshal(d[Head(keys)])
         IN  ScanLoop_skipUndecodable(d, Tail(keys), prefix,
                 IF u.err # NoError THEN links ELSE Append(links, u.link))

\* for ; it.ValidForPrefix(prefix); it.Next() { decode, append }: keys is what
\* the iterator has still to visit
RECURSIVE ScanLoop(_, _, _, _)
ScanLoop(d, keys, prefix, links) ==
    IF keys = <<>> \/ ~HasPrefix(Head(keys), prefix)
    THEN [err |-> NoError, links |-> links]
    ELSE LET u == Unmarshal(d[Head(keys)])
         IN  IF u.err # NoError
             THEN [err |-> Wrap("failed to unmarshal link data", u.err), links |-> links]
             ELSE ScanLoop(d, Tail(keys), prefix, Append(links, u.link))

\* db.View(fn): ErrDBClosed on a closed engine, else the prefix scan of fn
View(closed, d, userID) ==
    IF closed THEN [err |-> <<ErrDBClosed>>, links |-> <<>>]
    ELSE LET prefix == generateUserPrefix(userID)
         IN  ScanLoop(d, Seek(SortedKeys(DOMAIN d), prefix), prefix, <<>>)

\* the inner loop of the insertion sort: s[Len(s)] sinks while it is less
\* than its predecessor (links[i].Timestamp.After(links[j].Timestamp))
RECURSIVE SinkLast(_)
SinkLast(s) ==
    LET n == Len(s)
    IN  IF n > 1 /\ After(s[n].Timestamp, s[n - 1].Timestamp)
        THEN SinkLast(SubSeq(s, 1, n - 2) \o <<s[n]>>) \o <<s[n - 1]>>
        ELSE s

\* sort.Slice on fewer than 12 elements is an insertion sort; i is the next
\* element to insert
RECURSIVE InsertionSort(_, _)
InsertionSort(s, i) ==
    IF i > Len(s) THEN s
    ELSE InsertionSort(SinkLast(SubSeq(s, 1, i)) \o SubSeq(s, i + 1, Len(s)), i + 1)

\* the links are returned in the order of the scan
SortLinks_none(links) == links

\* sort.Slice(links, newest first)
SortLinks(links) == InsertionSort(links, 2)

\* the transaction removes the entries it has read
Discard_consume(d, userID) ==
    [k \in { x \in DOMAIN d : ~HasPrefix(x, generateUserPrefix(userID)) } |-> d[k]]

\* the entries after the transaction of db.View: a read-only transaction sets
\* and deletes nothing, and is discarded when its function returns, with an
\* error or without
Discard(d, userID) == d

\* an unknown user is an error
GetLinksByUserResult_notFound(closed, d, userID) ==
    LET v == View(closed, d, userID)
    IN  IF v.err # NoError \/ v.links = <<>>
        THEN [links |-> <<>>, err |-> Wrap("failed to get links for user", v.err)]
        ELSE [links |-> SortLinks(v.links), err |-> NoError]

\* GetLinksByUser: the links and the error returned
GetLinksByUserResult(closed, d, userID) ==
    LET v == View(closed, d, userID)
    IN  IF v.err # NoError
        THEN [links |-> <<>>, err |-> Wrap("failed to get links for user", v.err)]
        ELSE [links |-> SortLinks(v.links), err |-> NoError]

\* deleting a key that is not stored is an error
DeleteLinkResult_notFound(closed, d, userID, linkURL) ==
    LET key == generateLinkKey(userID, linkURL)
        u == Update(closed, d, Delete(d, key))
    IN  IF u.err # NoError \/ key \notin DOMAIN d
        THEN [err |-> Wrap("failed to delete link", u.err), db |-> d]
        ELSE [err |-> NoError, db |-> u.db]

\* DeleteLink: the error returned and the entries afterwards
DeleteLinkResult(closed, d, userID, linkURL) ==
    LET key == generateLinkKey(userID, linkURL)
        u == Update(closed, d, Delete(d, key))
    IN  IF u.err # NoError
        THEN [err |-> Wrap("failed to delete link", u.err), db |-> d]
        ELSE [err |-> NoError, db |-> u.db]

---------------------------------------------------------------------------
(* The state machine *)

\* what the history keeps of a record saved while time.Now() read instant now:
\* its title, its description and the instant it is to carry
Saved(link, now) ==
    [Title |-> link.Title, Description |-> link.Description,
     inst |-> IF link.Timestamp.inst = 0 THEN now ELSE link.Timestamp.inst]

\* the record of a call that has returned.  ts: the instant of the timestamp
\* SaveLink was given; now: the instant time.Now() read in it; stored: the pair
\* was stored when the call was made; replaced: it was stored with another
\* value than the one the call wrote.
Returned(op, userID, url, err, links, ts, now, stored, replaced) ==
    [op |-> op, userID |-> userID, url |-> url, err |-> err, links |-> links,
     ts |-> ts, now |-> now, stored |-> stored, replaced |-> replaced]

\* no GetLinksByUser is in flight
NoReader == [pc |-> "idle"]

\* the entries committed since the reader's transaction began, after a
\* transaction has left the entries written
Committed(written) ==
    IF reader.pc = "idle" THEN versions ELSE versions \cup {written}

\* context.Background(): never cancelled
Background == FALSE

\* no function is applied on its own
NoCall == [fn |-> "none"]

\* no concurrent goroutine calls the store
NoWriters == <<>>

\* NewBadgerRepository on a directory that holds these entries: the engine is
\* open, and no goroutine is started (the line that starts runGC is a comment)
Opened(entries) ==
    /\ db = entries
    /\ isClosed = FALSE
    /\ last = Returned("NewBadgerRepository", 0, <<>>, NoError, <<>>, 0, 0, FALSE, FALSE)
    /\ prev = entries
    /\ live = [p \in {} |-> p]
    /\ ctxDone = FALSE
    /\ reader = NoReader
    /\ versions = {}
    /\ gcRunning = FALSE

\* NewBadgerRepository: an open engine with no entries
Init == Opened([k \in {} |-> k]) /\ call = NoCall /\ writers = NoWriters

\* SaveLink(ctx, link), where time.Now() reads instant now if it is called
SaveLink(ctx, link, now) ==
    LET key == generateLinkKey(link.UserID, link.URL)
        r == SaveLinkResult(isClosed, db, Now(now), link)
        pair == <<link.UserID, link.URL>>
    IN  /\ IsZero(link.Timestamp) \/ now = 1
        /\ db' = r.db
        /\ prev' = db
        /\ last' = Returned("SaveLink", link.UserID, link.URL, r.err, <<>>,
                            link.Timestamp.inst,
                            IF IsZero(link.Timestamp) THEN now ELSE 0,
                            key \in DOMAIN db,
                            key \in DOMAIN db /\ r.db[key] # db[key])
        /\ live' = IF r.err = NoError
                   THEN [p \in DOMAIN live \cup {pair} |->
                            IF p = pair THEN Saved(link, now) ELSE live[p]]
                   ELSE live
        /\ ctxDone' = ctx
        /\ versions' = Committed(r.db)
        /\ UNCHANGED <<isClosed, reader, gcRunning, call, writers>>

\* GetLinksByUser(ctx, userID), its transaction taken as one step
GetLinksByUser(ctx, userID) ==
    LET r == GetLinksByUserResult(isClosed, db, userID)
    IN  /\ last' = Returned("GetLinksByUser", userID, <<>>, r.err, r.links,
                            0, 0, FALSE, FALSE)
        /\ db' = Discard(db, userID)
        /\ prev' = db
        /\ ctxDone' = ctx
        /\ UNCHANGED <<isClosed, live, reader, versions, gcRunning, call, writers>>

\* DeleteLink(ctx, userID, linkURL)
DeleteLink(ctx, userID, linkURL) ==
    LET key == generateLinkKey(userID, linkURL)
        r == DeleteLinkResult(isClosed, db, userID, linkURL)
        pair == <<userID, linkURL>>
    IN  /\ db' = r.db
        /\ prev' = db
        /\ last' = Returned("DeleteLink", userID, linkURL, r.err, <<>>,
                            0, 0, key \in DOMAIN db, FALSE)
        /\ live' = IF r.err = NoError
                   THEN [p \in DOMAIN live \ {pair} |-> live[p]]
                   ELSE live
        /\ ctxDone' = ctx
        /\ versions' = Committed(r.db)
        /\ UNCHANGED <<isClosed, reader, gcRunning, call, writers>>

\* Close(): r.db.Close(); closing a closed engine does nothing
Close ==
    /\ isClosed' = TRUE
    /\ last' = Returned("Close", 0, <<>>, NoError, <<>>, 0, 0, FALSE, FALSE)
    /\ prev' = db
    /\ ctxDone' = FALSE
    /\ UNCHANGED <<db, live, reader, versions, gcRunning, call, writers>>

Next ==
    \/ \E link \in Links, now \in NowInstants : SaveLink(Background, link, now)
    \/ \E userID \in UserIDs : GetLinksByUser(Background, userID)
    \/ \E userID \in UserIDs, linkURL \in URLs : DeleteLink(Background, userID, linkURL)
    \/ Close

Spec == Init /\ [][Next]_vars

\* a record of the samples with a timestamp json encodes
StoredSample == CHOOSE m \in Samples : m.Timestamp.inst = 2

\* entries an engine directory may hold when it is opened: records of users 12
\* and 1 written by an earlier run, the value of the pair bad being cut short
ExistingEntries(bad) ==
    LET enc(p) == Marshal(Link(p[2], p[1], StoredSample)).bytes
        pairs == { <<12, <<97>>>>, <<12, <<98>>>>, <<1, <<97>>>> }
    IN  [k \in { generateLinkKey(p[1], p[2]) : p \in pairs } |->
            LET p == CHOOSE q \in pairs : generateLinkKey(q[1], q[2]) = k
            IN  IF p = bad THEN Truncated ELSE enc(p)]

\* NewBadgerRepository on a directory that holds entries: badger.Open reads
\* them without decoding any value
InitExisting ==
    Opened(ExistingEntries(<<12, <<98>>>>)) /\ call = NoCall /\ writers = NoWriters

\* the records callers save over the existing entries: a record of the pair
\* whose value was cut short and a record of the other user, without a
\* timestamp and with one
RewriteLinks ==
    { link \in Links : /\ <<link.UserID, link.URL>> \in { <<12, <<98>>>>, <<1, <<97>>>> }
                       /\ link.Timestamp.inst \in {0, 2} }

NextExisting ==
    \/ \E link \in RewriteLinks, now \in NowInstants : SaveLink(Background, link, now)
    \/ \E userID \in UserIDs : GetLinksByUser(Background, userID)
    \/ \E userID \in UserIDs, linkURL \in URLs : DeleteLink(Background, userID, linkURL)
    \/ Close

\* the store opened on such a directory
SpecExisting == InitExisting /\ [][NextExisting]_vars

---------------------------------------------------------------------------
(* GetLinksByUser step by step, beside transactions that commit meanwhile *)

\* item.Value reads the latest committed value of the key
ItemValue_latest(snapshot, current, key) ==
    IF key \in DOMAIN current THEN current[key] ELSE snapshot[key]

\* item.Value of the iterator of a read transaction: the value of the key as
\* of the transaction's read timestamp
ItemValue(snapshot, current, key) == snapshot[key]

\* it.ValidForPrefix(prefix), keys being what the iterator has still to visit
ValidForPrefix(keys, prefix) == keys # <<>> /\ HasPrefix(Head(keys), prefix)

\* r.db.View begins: ErrDBClosed on a closed engine; else a read-only
\* transaction on the entries committed so far, and it.Seek(prefix)
BeginView(ctx, userID) ==
    /\ reader.pc = "idle"
    /\ IF isClosed
       THEN /\ last' = Returned("GetLinksByUser", userID, <<>>,
                                Wrap("failed to get links for user", <<ErrDBClosed>>),
                                <<>>, 0, 0, FALSE, FALSE)
            /\ prev' = db
            /\ ctxDone' = ctx
            /\ UNCHANGED <<reader, versions>>
       ELSE /\ reader' = [pc |-> "scan", ctx |-> ctx, userID |-> userID, snapshot |-> db,
                          keys |-> Seek(SortedKeys(DOMAIN db), generateUserPrefix(userID)),
                          links |-> <<>>]
            /\ versions' = {db}
            /\ UNCHANGED <<last, prev, ctxDone>>
    /\ UNCHANGED <<db, isClosed, live, gcRunning, call, writers>>

\* one turn of the loop: it.ValidForPrefix(prefix) holds; item.Value, decode,
\* append, it.Next().  A decoding error ends the call.
ScanNext ==
    /\ reader.pc = "scan"
    /\ ValidForPrefix(reader.keys, generateUserPrefix(reader.userID))
    /\ LET u == Unmarshal(ItemValue(reader.snapshot, db, Head(reader.keys)))
       IN  IF u.err # NoError
           THEN /\ last' = Returned("GetLinksByUser", reader.userID, <<>>,
                        Wrap("failed to get links for user",
                             Wrap("failed to unmarshal link data", u.err)),
                        <<>>, 0, 0, FALSE, FALSE)
                /\ prev' = reader.snapshot
                /\ ctxDone' = reader.ctx
                /\ reader' = NoReader
           ELSE /\ reader' = [reader EXCEPT !.keys = Tail(@), !.links = Append(@, u.link)]
                /\ UNCHANGED <<last, prev, ctxDone>>
    /\ UNCHANGED <<db, isClosed, live, versions, gcRunning, call, writers>>

\* it.ValidForPrefix(prefix) fails: View returns, the links are sorted and
\* returned
EndView ==
    /\ reader.pc = "scan"
    /\ ~ValidForPrefix(reader.keys, generateUserPrefix(reader.userID))
    /\ last' = Returned("GetLinksByUser", reader.userID, <<>>, NoError,
                        SortLinks(reader.links), 0, 0, FALSE, FALSE)
    /\ prev' = reader.snapshot
    /\ ctxDone' = reader.ctx
    /\ reader' = NoReader
    /\ UNCHANGED <<db, isClosed, live, versions, gcRunning, call, writers>>

\* the records saved beside a reader: two values for each of two urls of
\* user 12
ConcurrentLinks ==
    { link \in Links : /\ link.UserID = 12 /\ link.URL # <<>>
                       /\ link.Timestamp.inst \in {1, 2} }

\* a further transaction may commit beside the reader
MayCommit == reader.pc = "idle" \/ Cardinality(versions) <= MaxWritesInRead

NextSnapshot ==
    \/ BeginView(Background, 12)
    \/ ScanNext
    \/ EndView
    \/ MayCommit /\ \E link \in ConcurrentLinks : SaveLink(Background, link, 1)
    \/ MayCommit /\ \E linkURL \in URLs \ {<<>>} : DeleteLink(Background, 12, linkURL)

\* SaveLink and DeleteLink of other goroutines commit between the steps of a
\* GetLinksByUser
SpecSnapshot == Init /\ [][NextSnapshot]_vars

---------------------------------------------------------------------------
(* Calls with a context that may be cancelled *)

\* the records saved with such a context: a url that users 1 and 12 both
\* save, without a timestamp and with one
CancelLinks ==
    { link \in Links : link.URL = <<97>> /\ link.Timestamp.inst \in {0, 2} }

\* ctx: the context handed in is cancelled already.  No method reads its
\* context.
NextCancelled ==
    \/ \E ctx \in BOOLEAN, link \in CancelLinks, now \in NowInstants :
          SaveLink(ctx, link, now)
    \/ \E ctx \in BOOLEAN, userID \in UserIDs : GetLinksByUser(ctx, userID)
    \/ \E ctx \in BOOLEAN, userID \in UserIDs : DeleteLink(ctx, userID, <<97>>)
    \/ Close

SpecCancelled == Init /\ [][NextCancelled]_vars

---------------------------------------------------------------------------
(* The record codec applied on its own *)

\* the records encoded: the empty url, a url, a url that is not valid UTF-8;
\* the user ids 0, -1 and 12; no timestamp, time.Now(), a timestamp without
\* monotonic reading, a timestamp json cannot encode; no tags, an empty tag
\* list, one tag, two tags; either read flag; no preview image and one
CodecLinks ==
    [URL : {<<>>, <<97>>, <<97, 255>>},
     Title : {"", "t1"},
     Description : {"d1"},
     UserID : {0, -1, 12},
     Timestamp : {ZeroTime, Now(2), [inst |-> 1, mono |-> FALSE, yearInRange |-> TRUE],
                  [inst |-> 3, mono |-> FALSE, yearInRange |-> FALSE]},
     Tags : {NilTags} \cup [isNil : {FALSE}, elems : {<<>>, <<"x">>, <<"y", "x">>}],
     Read : BOOLEAN,
     PreviewImageURL : {"", "p"}]

\* a record to encode
InitCodec ==
    /\ Opened([k \in {} |-> k])
    /\ writers = NoWriters
    /\ \E link \in CodecLinks : call = [fn |-> "json.Marshal", link |-> link]

\* linkData, err := json.Marshal(link)
Encode ==
    /\ call.fn = "json.Marshal"
    /\ LET m == Marshal(call.link)
       IN  call' = IF m.err # NoError
                   THEN [fn |-> "failed", link |-> call.link, err |-> m.err]
                   ELSE [fn |-> "json.Unmarshal", link |-> call.link, bytes |-> m.bytes]
    /\ UNCHANGED <<db, isClosed, last, prev, live, ctxDone, reader, versions, gcRunning,
                   writers>>

\* json.Unmarshal(valCopy, &link)
Decode ==
    /\ call.fn = "json.Unmarshal"
    /\ LET u == Unmarshal(call.bytes)
       IN  call' = IF u.err # NoError
                   THEN [fn |-> "failed", link |-> call.link, err |-> u.err]
                   ELSE [fn |-> "decoded", link |-> call.link, bytes |-> call.bytes,
                         decoded |-> u.link]
    /\ UNCHANGED <<db, isClosed, last, prev, live, ctxDone, reader, versions, gcRunning,
                   writers>>

NextCodec == Encode \/ Decode

SpecCodec == InitCodec /\ [][NextCodec]_vars

---------------------------------------------------------------------------
(* RodScraper.ScrapeMetadata, step by step; what the browser answers is an
   input of every step *)

\* every variable but call
storeVars ==
    <<db, isClosed, last, prev, live, ctxDone, reader, versions, gcRunning, writers>>

\* context.DeadlineExceeded
ErrDeadlineExceeded == "context deadline exceeded"

\* an error of the rod library
ErrRod == "rod error"

\* the call fails when the page has no title
Completed_requireTitle(title, description) ==
    [title |-> title, description |-> description,
     err |-> IF title = "" THEN <<"no title">> ELSE NoError]

\* return title, description, nil
Completed(title, description) ==
    [title |-> title, description |-> description, err |-> NoError]

\* return "", "", err
Failed(err) == [title |-> "", description |-> "", err |-> err]

\* the deferred function of a close: its error becomes the error returned if
\* there is none yet
AfterClose(err, msg, closeErr) ==
    IF closeErr # NoError /\ err = NoError THEN Wrap(msg, closeErr) ELSE err

\* ScrapeMetadata(ctx, url) has been called
InitScraper ==
    /\ Opened([k \in {} |-> k])
    /\ writers = NoWriters
    /\ call = [fn |-> "ScrapeMetadata", pc |-> "LookPath", title |-> "", description |-> "",
               err |-> NoError, defers |-> <<>>, loaded |-> FALSE, closeFailed |-> FALSE,
               titleWas |-> "", descWas |-> <<>>]

\* a return statement has set the results: the deferred functions run next
Return(r) ==
    [call EXCEPT !.pc = "deferred", !.title = r.title, !.description = r.description,
                 !.err = r.err]

\* path, exists := launcher.LookPath()
LookPath ==
    /\ call.fn = "ScrapeMetadata" /\ call.pc = "LookPath"
    /\ \E exists \in BOOLEAN :
          call' = IF exists THEN [call EXCEPT !.pc = "MustLaunch"]
                  ELSE Return(Failed(<<"rod browser dependency not found">>))
    /\ UNCHANGED storeVars

\* launcher.New().Bin(path).MustLaunch(): panics when the browser does not start
MustLaunch ==
    /\ call.fn = "ScrapeMetadata" /\ call.pc = "MustLaunch"
    /\ \E started \in BOOLEAN :
          call' = [call EXCEPT !.pc = IF started THEN "Connect" ELSE "panicked"]
    /\ UNCHANGED storeVars

\* err = browser.Connect(); on success, defer browser.Close()
Connect ==
    /\ call.fn = "ScrapeMetadata" /\ call.pc = "Connect"
    /\ \E e \in {NoError, <<ErrRod>>} :
          call' = IF e # NoError
                  THEN Return(Failed(Wrap("failed to connect to browser", e)))
                  ELSE [call EXCEPT !.pc = "Page", !.defers = <<"browser">>]
    /\ UNCHANGED storeVars

\* page, err = browser.Page(...); on success, defer page.Close()
Page ==
    /\ call.fn = "ScrapeMetadata" /\ call.pc = "Page"
    /\ \E e \in {NoError, <<ErrRod>>} :
          call' = IF e # NoError
                  THEN Return(Failed(Wrap("failed to create page", e)))
                  ELSE [call EXCEPT !.pc = "WaitLoad", !.defers = <<"page">> \o @]
    /\ UNCHANGED storeVars

\* err = page.WaitLoad() under the timeout of 30 seconds
WaitLoad ==
    /\ call.fn = "ScrapeMetadata" /\ call.pc = "WaitLoad"
    /\ \E e \in {NoError, <<ErrRod>>, <<ErrDeadlineExceeded>>} :
          call' = IF e = NoError THEN [call EXCEPT !.pc = "Title", !.loaded = TRUE]
                  ELSE IF ErrorsIs(e, ErrDeadlineExceeded)
                  THEN Return(Failed(Wrap("scraping timed out", e)))
                  ELSE Return(Failed(Wrap("failed waiting for page load", e)))
    /\ UNCHANGED storeVars

\* titleElement, err := page.Element("title"); title, err = titleElement.Text():
\* err is the result variable, and an error leaves it set.  found: no element,
\* an element without readable text, a blank text, a text
ExtractTitle ==
    /\ call.fn = "ScrapeMetadata" /\ call.pc = "Title"
    /\ \E found \in {"missing", "unreadable", "blank", "text"} :
          call' = [call EXCEPT !.pc = "Selector", !.titleWas = found,
                               !.title = IF found = "text" THEN "T" ELSE "",
                               !.err = IF found \in {"missing", "unreadable"}
                                       THEN <<ErrRod>> ELSE NoError]
    /\ UNCHANGED storeVars

\* one turn of the loop over descSelectors (two selectors), with its own err.
\* found: no element, an error of the search, no content attribute, an
\* attribute that cannot be read, a blank content, a content
TrySelector ==
    /\ call.fn = "ScrapeMetadata" /\ call.pc = "Selector"
    /\ Len(call.descWas) < 2
    /\ call.description = ""
    /\ \E found \in {"missing", "failed", "absent", "unreadable", "blank", "text"} :
          call' = [call EXCEPT !.descWas = Append(@, found),
                               !.description = IF found = "text" THEN "D" ELSE ""]
    /\ UNCHANGED storeVars

\* the loop is left (break, or no selector left); return title, description, nil
ReturnMetadata ==
    /\ call.fn = "ScrapeMetadata" /\ call.pc = "Selector"
    /\ Len(call.descWas) = 2 \/ call.description # ""
    /\ call' = Return(Completed(call.title, call.description))
    /\ UNCHANGED storeVars

\* the deferred functions, last one first: page.Close(), browser.Close()
RunDeferred ==
    /\ call.fn = "ScrapeMetadata" /\ call.pc = "deferred"
    /\ call.defers # <<>>
    /\ \E closeErr \in {NoError, <<ErrRod>>} :
          call' = [call EXCEPT
                     !.defers = Tail(@),
                     !.closeFailed = @ \/ closeErr # NoError,
                     !.err = AfterClose(@, IF Head(call.defers) = "page"
                                          THEN "error closing page"
                                          ELSE "error closing browser", closeErr)]
    /\ UNCHANGED storeVars

\* the call returns to its caller
Returns ==
    /\ call.fn = "ScrapeMetadata" /\ call.pc = "deferred"
    /\ call.defers = <<>>
    /\ call' = [call EXCEPT !.pc = "returned"]
    /\ UNCHANGED storeVars

NextScraper ==
    \/ LookPath
    \/ MustLaunch
    \/ Connect
    \/ Page
    \/ WaitLoad
    \/ ExtractTitle
    \/ TrySelector
    \/ ReturnMetadata
    \/ RunDeferred
    \/ Returns

SpecScraper == InitScraper /\ [][NextScraper]_vars

---------------------------------------------------------------------------
(* Records without userID or without url *)

\* the user ids of these calls: none (0), and 12
DegenerateUserIDs == {0, 12}

\* the records saved: no userID and no url, no userID, no url; without a
\* timestamp and with one
DegenerateLinks ==
    { Link(p[2], p[1], m) :
        p \in { <<0, <<>>>>, <<0, <<97>>>>, <<12, <<>>>> },
        m \in { x \in Samples : x.Timestamp.inst \in {0, 2} } }

NextDegenerate ==
    \/ \E link \in DegenerateLinks, now \in NowInstants : SaveLink(Background, link, now)
    \/ \E userID \in DegenerateUserIDs : GetLinksByUser(Background, userID)
    \/ \E userID \in DegenerateUserIDs, linkURL \in {<<>>, <<97>>} :
          DeleteLink(Background, userID, linkURL)
    \/ Close

SpecDegenerate == Init /\ [][NextDegenerate]_vars

---------------------------------------------------------------------------
(* Urls that are not valid UTF-8 *)

\* the urls of these calls, as bytes: "a" and "a\xff".  A Go string holds any
\* bytes.
RawURLs == {<<97>>, <<97, 255>>}

\* the records saved: without a timestamp and with one
RawLinks ==
    { Link(url, userID, m) :
        url \in RawURLs, userID \in {12},
        m \in { x \in Samples : x.Timestamp.inst \in {0, 2} } }

NextRaw ==
    \/ \E link \in RawLinks, now \in NowInstants : SaveLink(Background, link, now)
    \/ \E userID \in {12} : GetLinksByUser(Background, userID)
    \/ \E userID \in {12}, linkURL \in RawURLs : DeleteLink(Background, userID, linkURL)
    \/ Close

SpecRaw == Init /\ [][NextRaw]_vars

---------------------------------------------------------------------------
(* The key scheme applied on its own *)

\* user ids: negative ones, none, and decimal prefixes of each other
KeyUserIDs == {-12, -1, 0, 1, 12, 123}

\* urls as bytes: "", "a", ":", ":link:", "user:", "2:link:", "link:a"
KeyURLs ==
    { <<>>, <<97>>, <<58>>, <<58, 108, 105, 110, 107, 58>>, <<117, 115, 101, 114, 58>>,
      <<50, 58, 108, 105, 110, 107, 58>>, <<108, 105, 110, 107, 58, 97>> }

\* two (userID, url) pairs to make keys and prefixes of
InitKeys ==
    /\ Opened([k \in {} |-> k])
    /\ writers = NoWriters
    /\ \E A \in KeyUserIDs, B \in KeyUserIDs, urlA \in KeyURLs, urlB \in KeyURLs :
          call = [fn |-> "generateLinkKey", A |-> A, urlA |-> urlA, B |-> B, urlB |-> urlB]

\* key := generateLinkKey(userID, url), for both pairs
MakeKeys ==
    /\ call.fn = "generateLinkKey"
    /\ call' = [fn |-> "generateUserPrefix", A |-> call.A, urlA |-> call.urlA,
                B |-> call.B, urlB |-> call.urlB,
                keyA |-> generateLinkKey(call.A, call.urlA),
                keyB |-> generateLinkKey(call.B, call.urlB)]
    /\ UNCHANGED storeVars

\* prefix := generateUserPrefix(userID), for both users
MakePrefixes ==
    /\ call.fn = "generateUserPrefix"
    /\ call' = [fn |-> "keys", A |-> call.A, urlA |-> call.urlA,
                B |-> call.B, urlB |-> call.urlB,
                keyA |-> call.keyA, keyB |-> call.keyB,
                prefixA |-> generateUserPrefix(call.A),
                prefixB |-> generateUserPrefix(call.B)]
    /\ UNCHANGED storeVars

NextKeys == MakeKeys \/ MakePrefixes

SpecKeys == InitKeys /\ [][NextKeys]_vars

---------------------------------------------------------------------------
(* SaveLink and DeleteLink of concurrent goroutines, each in two steps: the
   call up to the write its transaction holds, and the commit *)

\* the number of goroutines that call the store at once
Goroutines == 3

\* the entries the store holds when they start: records of users 12 and 1
StartEntries == ExistingEntries(<<0, <<>>>>)

\* a call of a goroutine, not yet begun
Called(op, userID, url, m, now) ==
    [op |-> op, userID |-> userID, url |-> url, link |-> Link(url, userID, m), now |-> now,
     pc |-> "called", snapshot |-> [k \in {} |-> k], key |-> <<>>,
     val |-> [x \in {} |-> x], err |-> NoError]

\* the calls: two records for the stored pair (12, "a"), and the deletion of
\* the stored pairs (12, "a") and (12, "b")
ConcurrentCalls ==
    LET noTime == CHOOSE m \in Samples : m.Timestamp.inst = 0
        withTime == CHOOSE m \in Samples : m.Timestamp.inst = 1
    IN  { Called("SaveLink", 12, <<97>>, noTime, 2),
          Called("SaveLink", 12, <<97>>, withTime, 1),
          Called("DeleteLink", 12, <<97>>, noTime, 1),
          Called("DeleteLink", 12, <<98>>, noTime, 1) }

\* the goroutines have made their calls
InitConcurrent ==
    /\ Opened(StartEntries)
    /\ call = NoCall
    /\ writers \in [1..Goroutines -> ConcurrentCalls]

\* the commit writes the entries of the transaction's begin back, with its
\* write applied
CommitWrites_fromSnapshot(current, w) ==
    IF w.op = "DeleteLink" THEN Delete(w.snapshot, w.key)
    ELSE SetEntry(w.snapshot, w.key, w.val)

\* the commit of db.Update: the transaction has read no key, so no commit
\* since its begin conflicts with it, and its one write is applied to the
\* entries as they are now
CommitWrites(current, w) ==
    IF w.op = "DeleteLink" THEN Delete(current, w.key)
    ELSE SetEntry(current, w.key, w.val)

\* the call of goroutine i up to the write of its transaction: SaveLink stamps
\* and serializes the record, both build the key; db.Update begins and fn does
\* txn.SetEntry or txn.Delete.  A record json cannot encode and a closed
\* engine end the call.
BeginUpdate(i) ==
    LET w == writers[i]
        m == Marshal(Stamp(w.link, Now(w.now)))
        failed == IF w.op = "SaveLink" /\ m.err # NoError
                  THEN Wrap("failed to marshal link", m.err)
                  ELSE IF ~isClosed THEN NoError
                  ELSE IF w.op = "SaveLink"
                  THEN Wrap("failed to save link", <<ErrDBClosed>>)
                  ELSE Wrap("failed to delete link", <<ErrDBClosed>>)
    IN  /\ w.pc = "called"
        /\ writers' = [writers EXCEPT ![i] =
              IF failed # NoError THEN [w EXCEPT !.pc = "returned", !.err = failed]
              ELSE [w EXCEPT !.pc = "txn", !.snapshot = db,
                             !.key = generateLinkKey(w.userID, w.url),
                             !.val = m.bytes]]
        /\ UNCHANGED <<db, isClosed, last, prev, live, ctxDone, reader, versions,
                       gcRunning, call>>

\* the transaction of goroutine i commits and its call returns
CommitUpdate(i) ==
    LET w == writers[i]
        written == CommitWrites(db, w)
        pair == <<w.userID, w.url>>
    IN  /\ w.pc = "txn"
        /\ db' = written
        /\ prev' = db
        /\ last' = Returned(w.op, w.userID, w.url, NoError, <<>>,
                            IF w.op = "SaveLink" THEN w.link.Timestamp.inst ELSE 0,
                            IF w.op = "SaveLink" /\ IsZero(w.link.Timestamp) THEN w.now ELSE 0,
                            w.key \in DOMAIN db,
                            w.op = "SaveLink" /\ w.key \in DOMAIN db /\ written[w.key] # db[w.key])
        /\ live' = IF w.op = "SaveLink"
                   THEN [p \in DOMAIN live \cup {pair} |->
                            IF p = pair THEN Saved(w.link, w.now) ELSE live[p]]
                   ELSE [p \in DOMAIN live \ {pair} |-> live[p]]
        /\ ctxDone' = FALSE
        /\ versions' = Committed(written)
        /\ writers' = [writers EXCEPT ![i] = [w EXCEPT !.pc = "returned"]]
        /\ UNCHANGED <<isClosed, reader, gcRunning, call>>

NextConcurrent ==
    \/ \E i \in 1..Goroutines : BeginUpdate(i)
    \/ \E i \in 1..Goroutines : CommitUpdate(i)

SpecConcurrent == InitConcurrent /\ [][NextConcurrent]_vars

---------------------------------------------------------------------------
(* main, from the opened store to the end of the process, beside the goroutine
   of the bot and the handlers of the updates it receives *)

\* the updates the bot receives at most
MaxUpdates == 3

\* the handlers NewHandler registers
Handlers == {"startHandler", "defaultHandler"}

\* no handler is running
NoHandlers == [h \in Handlers |-> 0]

\* repo, err := storage.NewBadgerRepository(...) has returned a store, and the
\* function that closes it is deferred.  ctx: none, listening (for SIGINT and
\* SIGTERM), done; bot: none, created, started (the goroutine), polling,
\* stopped, killed (by the end of the process); handlers: how many runs of
\* each handler are going on
InitMain ==
    /\ Opened([k \in {} |-> k])
    /\ writers = NoWriters
    /\ call = [fn |-> "main", pc |-> "NewHandler", ctx |-> "none", bot |-> "none",
               handlers |-> NoHandlers, updates |-> 0, closes |-> 0]

\* botHandler, err := bot.NewHandler(...); on an error log.Fatalf ends the
\* process, and no deferred function runs
NewHandler(ok) ==
    /\ call.fn = "main" /\ call.pc = "NewHandler"
    /\ call' = IF ok THEN [call EXCEPT !.pc = "NotifyContext", !.bot = "created"]
               ELSE [call EXCEPT !.pc = "exited"]
    /\ UNCHANGED storeVars

\* ctx, stop := signal.NotifyContext(context.Background(), SIGINT, SIGTERM)
NotifyContext ==
    /\ call.fn = "main" /\ call.pc = "NotifyContext"
    /\ call' = [call EXCEPT !.pc = "go", !.ctx = "listening"]
    /\ UNCHANGED storeVars

\* go botHandler.Start(ctx)
GoStart ==
    /\ call.fn = "main" /\ call.pc = "go"
    /\ call' = [call EXCEPT !.pc = "wait", !.bot = "started"]
    /\ UNCHANGED storeVars

\* SIGINT or SIGTERM arrives while the context listens: the context is done
Signal ==
    /\ call.fn = "main" /\ call.ctx = "listening" /\ call.pc # "exited"
    /\ call' = [call EXCEPT !.ctx = "done"]
    /\ UNCHANGED storeVars

\* <-ctx.Done()
AwaitDone ==
    /\ call.fn = "main" /\ call.pc = "wait" /\ call.ctx = "done"
    /\ call' = [call EXCEPT !.pc = "stop"]
    /\ UNCHANGED storeVars

\* stop(), and main reaches its end: the deferred functions run next
Stop ==
    /\ call.fn = "main" /\ call.pc = "stop"
    /\ call' = [call EXCEPT !.pc = "deferred", !.ctx = "done"]
    /\ UNCHANGED storeVars

\* the deferred stop(), then the deferred repo.Close()
DeferredClose ==
    /\ call.fn = "main" /\ call.pc = "deferred"
    /\ isClosed' = TRUE
    /\ last' = Returned("Close", 0, <<>>, NoError, <<>>, 0, 0, FALSE, FALSE)
    /\ prev' = db
    /\ ctxDone' = FALSE
    /\ call' = [call EXCEPT !.pc = "returned", !.closes = @ + 1]
    /\ UNCHANGED <<db, live, reader, versions, gcRunning, writers>>

\* main returns: the process ends, and every goroutine with it
Exit ==
    /\ call.fn = "main" /\ call.pc = "returned"
    /\ call' = [call EXCEPT !.pc = "exited", !.handlers = NoHandlers,
                            !.bot = IF @ \in {"started", "polling"} THEN "killed" ELSE @]
    /\ UNCHANGED storeVars

\* Handler.Start in its goroutine: h.bot.Start(ctx)
StartPolling ==
    /\ call.fn = "main" /\ call.bot = "started" /\ call.pc # "exited"
    /\ call' = [call EXCEPT !.bot = "polling"]
    /\ UNCHANGED storeVars

\* the polling bot receives an update and runs the handler h registered for it
ReceiveUpdate(h) ==
    /\ call.fn = "main" /\ call.bot = "polling" /\ call.pc # "exited"
    /\ call.ctx = "listening"
    /\ call.updates < MaxUpdates
    /\ call' = [call EXCEPT !.handlers[h] = @ + 1, !.updates = @ + 1]
    /\ UNCHANGED storeVars

\* a run of handler h returns
HandlerReturn(h) ==
    /\ call.fn = "main" /\ call.handlers[h] > 0 /\ call.pc # "exited"
    /\ call' = [call EXCEPT !.handlers[h] = @ - 1]
    /\ UNCHANGED storeVars

\* h.bot.Start(ctx) returns, the context being done: "polling stopped"
PollingStopped ==
    /\ call.fn = "main" /\ call.bot = "polling" /\ call.pc # "exited"
    /\ call.ctx = "done"
    /\ call' = [call EXCEPT !.bot = "stopped"]
    /\ UNCHANGED storeVars

NextMain ==
    \/ \E ok \in BOOLEAN : NewHandler(ok)
    \/ NotifyContext
    \/ GoStart
    \/ Signal
    \/ AwaitDone
    \/ Stop
    \/ DeferredClose
    \/ Exit
    \/ StartPolling
    \/ \E h \in Handlers : ReceiveUpdate(h)
    \/ \E h \in Handlers : HandlerReturn(h)
    \/ PollingStopped

SpecMain == InitMain /\ [][NextMain]_vars

---------------------------------------------------------------------------
(* Properties *)

\* what GetLinksByUser(userID) returns in the current state
Get(userID) == GetLinksByUserResult(isClosed, db, userID)

\* the urls whose most recent successful operation for userID was a SaveLink
LiveURLs(userID) == { url \in URLs : <<userID, url>> \in DOMAIN live }

\* the positions of the records with this url
Positions(links, url) == { i \in 1..Len(links) : links[i].URL = url }

\* C1 (upsert): when a successful SaveLink has written a pair that was stored
\* already, GetLinksByUser of its user holds exactly one record with that url,
\* and it carries the title, description and timestamp of this later save.
C1_Upsert ==
    (last.op = "SaveLink" /\ last.err = NoError /\ last.stored) =>
        LET got == Get(last.userID).links
            want == live[<<last.userID, last.url>>]
        IN  /\ Cardinality(Positions(got, last.url)) = 1
            /\ \A i \in Positions(got, last.url) :
                  /\ got[i].Title = want.Title
                  /\ got[i].Description = want.Description
                  /\ got[i].Timestamp.inst = want.inst

\* a successful SaveLink has replaced the stored value of its pair by another
C1_Witness ==
    /\ last.op = "SaveLink" /\ last.err = NoError /\ last.replaced
    /\ Get(last.userID).links # <<>>

\* C2 (isolation): in every state, GetLinksByUser(A) returns only records whose
\* userID is A, for the users 1 and 12 too, one a decimal prefix of the other.
C2_Isolation ==
    \A A \in UserIDs :
        LET got == Get(A).links
        IN  \A i \in 1..Len(got) : got[i].UserID = A

\* GetLinksByUser(1) has returned records while user 12 has records stored
C2_Witness ==
    /\ last.op = "GetLinksByUser" /\ last.userID = 1 /\ last.links # <<>>
    /\ LiveURLs(12) # {}

\* C3 (completeness): on an open store, GetLinksByUser(A) returns exactly one
\* record for every url whose most recent successful operation for (A, url) was
\* a SaveLink, no record for another url, and as many records as such urls.
C3_Completeness ==
    ~isClosed =>
        \A A \in UserIDs :
            LET r == Get(A)
                got == r.links
            IN  /\ r.err = NoError
                /\ Len(got) = Cardinality(LiveURLs(A))
                /\ \A url \in URLs :
                      Cardinality(Positions(got, url)) =
                          IF url \in LiveURLs(A) THEN 1 ELSE 0
                /\ \A i \in 1..Len(got) : got[i].URL \in LiveURLs(A)

\* a stored pair of user 12 has been deleted, and two other urls of user 12
\* are still saved
C3_Witness ==
    /\ last.op = "DeleteLink" /\ last.err = NoError /\ last.stored
    /\ last.userID = 12
    /\ Cardinality(LiveURLs(12)) = 2
    /\ Len(Get(12).links) = 2

\* C4 (ordering): what GetLinksByUser returns is sorted by timestamp descending:
\* of two adjacent records the first is not before the second.
C4_Ordering ==
    \A A \in UserIDs :
        LET got == Get(A).links
        IN  \A i \in 1..(Len(got) - 1) :
                got[i].Timestamp.inst >= got[i + 1].Timestamp.inst

\* GetLinksByUser has returned three records, and the order of the timestamps
\* is against the byte order of the urls
C4_Witness ==
    /\ last.op = "GetLinksByUser" /\ Len(last.links) = 3
    /\ \E i \in 1..2 :
          /\ BytesLess(last.links[i + 1].URL, last.links[i].URL)
          /\ last.links[i].Timestamp.inst > last.links[i + 1].Timestamp.inst
    /\ \E i \in 1..2 :
          BytesLess(last.links[i].URL, last.links[i + 1].URL)

\* the records of userID among the entries d, as GetLinksByUser reads them
\* from an open store
StoredLinks(d, userID) == GetLinksByUserResult(FALSE, d, userID).links

\* what GetLinksByUser(userID) returned when the last call was made, for a call
\* other than Close (which alone changes isClosed)
GetBefore(userID) == GetLinksByUserResult(isClosed, prev, userID)

\* C5 (idempotent delete): on an open store, a DeleteLink of a pair that is not
\* stored returns success and leaves what GetLinksByUser returns for every user
\* as it was; so does the call repeated, its pair being not stored either.
C5_IdempotentDelete ==
    (/\ last.op = "DeleteLink" /\ ~isClosed
     /\ Positions(StoredLinks(prev, last.userID), last.url) = {})
    => /\ last.err = NoError
       /\ \A A \in UserIDs : Get(A) = GetBefore(A)

\* DeleteLink of a pair that was not stored has returned success, while other
\* records of that user are stored
C5_Witness ==
    /\ last.op = "DeleteLink" /\ ~last.stored /\ last.err = NoError
    /\ <<last.userID, last.url>> \notin DOMAIN live
    /\ Get(last.userID).links # <<>>

\* the records of a sequence, in order, without those of this url
RECURSIVE Without(_, _)
Without(links, url) ==
    IF links = <<>> THEN <<>>
    ELSE IF Head(links).URL = url THEN Without(Tail(links), url)
    ELSE <<Head(links)>> \o Without(Tail(links), url)

\* the urls of the records of a sequence
URLsOf(links) == { links[i].URL : i \in 1..Len(links) }

\* C6 (delete frame): a successful DeleteLink(userID, url) on a stored pair
\* removes exactly that record: the user's records afterwards are those before
\* without url, unchanged, and every other user's records are as before.  And
\* a record that was stored when a call was made is gone after it only if the
\* call was the successful DeleteLink of its userID and url.
C6_DeleteFrame ==
    /\ (/\ last.op = "DeleteLink" /\ last.err = NoError
        /\ last.url \in URLsOf(GetBefore(last.userID).links))
       => \A A \in UserIDs :
             LET got == Get(A).links
                 before == GetBefore(A).links
             IN  /\ A = last.userID =>
                       /\ last.url \notin URLsOf(got)
                       /\ got = Without(before, last.url)
                 /\ A # last.userID => got = before
    /\ \A A \in UserIDs :
          LET gone == URLsOf(StoredLinks(prev, A)) \ URLsOf(StoredLinks(db, A))
          IN  gone # {} =>
                 /\ last.op = "DeleteLink" /\ last.err = NoError
                 /\ last.userID = A /\ gone = {last.url}

\* DeleteLink has removed the stored pair (12, ""), whose key is the scan prefix
\* of user 12, while another record of user 12 and a record of user 1 stay
C6_Witness ==
    /\ last.op = "DeleteLink" /\ last.err = NoError /\ last.stored
    /\ last.userID = 12 /\ last.url = <<>>
    /\ Get(12).links # <<>>
    /\ Get(1).links # <<>>

\* C7 (empty user): on an open store, GetLinksByUser of a user with no stored
\* record (none saved, or all deleted) returns an empty sequence and no error.
C7_EmptyUser ==
    ~isClosed =>
        \A A \in UserIDs :
            LiveURLs(A) = {} => (Get(A).links = <<>> /\ Get(A).err = NoError)

\* GetLinksByUser(1) has returned nothing and no error, user 1 having no record
\* and user 12 having some
C7_Witness ==
    /\ last.op = "GetLinksByUser" /\ last.userID = 1
    /\ last.links = <<>> /\ last.err = NoError
    /\ LiveURLs(1) = {} /\ LiveURLs(12) # {}
    /\ ~isClosed

\* C8 (cross-user independence): a SaveLink or DeleteLink of user A leaves what
\* GetLinksByUser returns for every other user B as it was, also when B has a
\* record with the same url.
C8_CrossUser ==
    last.op \in {"SaveLink", "DeleteLink"} =>
        \A B \in UserIDs \ {last.userID} : Get(B) = GetBefore(B)

\* user 1 has just saved url "a", which user 12 has stored too, with another
\* title and another timestamp
C8_Witness ==
    /\ last.op = "SaveLink" /\ last.err = NoError
    /\ last.userID = 1 /\ last.url = <<97>>
    /\ Len(Get(1).links) = 1
    /\ \E i \in Positions(Get(12).links, <<97>>) :
          /\ Get(12).links[i].Title # Get(1).links[1].Title
          /\ Get(12).links[i].Timestamp.inst # Get(1).links[1].Timestamp.inst

\* C9 (timestamp defaulting): after a successful SaveLink the record of its pair
\* carries the instant time.Now() read in the call if the caller's timestamp
\* was zero, and the caller's instant otherwise; and no record GetLinksByUser
\* returns has a zero timestamp.
C9_TimestampDefault ==
    /\ (last.op = "SaveLink" /\ last.err = NoError) =>
          LET got == Get(last.userID).links
          IN  /\ Positions(got, last.url) # {}
              /\ \A i \in Positions(got, last.url) :
                    got[i].Timestamp.inst = IF last.ts = 0 THEN last.now ELSE last.ts
    /\ \A A \in UserIDs :
          LET got == Get(A).links
          IN  \A i \in 1..Len(got) : ~IsZero(got[i].Timestamp)

\* a record saved without a timestamp while time.Now() read instant 2 is
\* returned beside a record saved with the caller's timestamp 1
C9_Witness ==
    /\ last.op = "SaveLink" /\ last.err = NoError /\ last.ts = 0 /\ last.now = 2
    /\ \E i \in 1..Len(Get(last.userID).links) :
          /\ Get(last.userID).links[i].URL # last.url
          /\ Get(last.userID).links[i].Timestamp.inst = 1

\* the operations on records
CRUD == {"SaveLink", "GetLinksByUser", "DeleteLink"}

\* C10 as stated: a closed store stays closed, and every SaveLink,
\* GetLinksByUser and DeleteLink made on a closed store fails with the engine's
\* ErrDBClosed in its chain and changes no entry.
C10_Original ==
    [][/\ isClosed => isClosed'
       /\ (isClosed /\ last'.op \in CRUD)
          => (ErrorsIs(last'.err, ErrDBClosed) /\ db' = db)]_vars

\* C10 (lifecycle), amended: a closed store stays closed; every SaveLink,
\* GetLinksByUser and DeleteLink made on a closed store fails and changes no
\* entry; the error has the engine's ErrDBClosed in its chain, except that a
\* SaveLink of a record json cannot encode fails with the encoding error, the
\* record being serialized before the transaction is opened.
C10_Lifecycle ==
    [][/\ isClosed => isClosed'
       /\ (isClosed /\ last'.op \in CRUD)
          => /\ last'.err # NoError
             /\ db' = db
             /\ last'.op # "SaveLink" => ErrorsIs(last'.err, ErrDBClosed)
             /\ \A link \in Links, now \in NowInstants :
                   (/\ last'.op = "SaveLink"
                    /\ link.UserID = last'.userID /\ link.URL = last'.url
                    /\ link.Timestamp.inst = last'.ts
                    /\ SaveLink(Background, link, now))
                   => IF link.Timestamp.yearInRange
                      THEN ErrorsIs(last'.err, ErrDBClosed)
                      ELSE /\ ErrorsIs(last'.err, ErrYearOutOfRange)
                           /\ ~ErrorsIs(last'.err, ErrDBClosed)]_vars

\* on a closed store that holds records, a DeleteLink of a stored pair has
\* failed with ErrDBClosed and the entries are as they were
C10_Witness ==
    /\ isClosed
    /\ last.op = "DeleteLink" /\ last.stored
    /\ ErrorsIs(last.err, ErrDBClosed)
    /\ db = prev /\ DOMAIN db # {}
    /\ <<last.userID, last.url>> \in DOMAIN live

\* the keys stored under the scan prefix of userID
KeysOf(userID) == { k \in DOMAIN db : HasPrefix(k, generateUserPrefix(userID)) }

\* C11 (fail-fast decode): on an open store, if a value stored under the prefix
\* of user A cannot be decoded, GetLinksByUser(A) returns the decoding error
\* and no record at all; for a user whose values all decode it returns no
\* error and one record for every key under the prefix.
C11_FailFast ==
    ~isClosed =>
        \A A \in UserIDs :
            LET r == Get(A)
            IN  IF \E k \in KeysOf(A) : db[k] = Truncated
                THEN /\ r.links = <<>>
                     /\ ErrorsIs(r.err, ErrUnexpectedEnd)
                     /\ ErrorsIs(r.err, "failed to unmarshal link data")
                ELSE /\ r.err = NoError
                     /\ Len(r.links) = Cardinality(KeysOf(A))

\* GetLinksByUser(12) has failed with the decoding error and returned nothing,
\* a decodable record of user 12 being stored before the undecodable value in
\* the order of the scan, and GetLinksByUser(1) returns a record
C11_Witness ==
    /\ last.op = "GetLinksByUser" /\ last.userID = 12
    /\ ErrorsIs(last.err, ErrUnexpectedEnd) /\ last.links = <<>>
    /\ \E k, b \in KeysOf(12) :
          /\ db[k] # Truncated /\ db[b] = Truncated /\ BytesLess(k, b)
    /\ Get(1).err = NoError /\ Get(1).links # <<>>

\* a returned record carries every field of the record link, saved while
\* time.Now() read instant now
CarriesAll(got, link, now) ==
    /\ got.URL = link.URL /\ got.UserID = link.UserID
    /\ got.Title = link.Title /\ got.Description = link.Description
    /\ got.Tags.elems = link.Tags.elems /\ got.Read = link.Read
    /\ got.PreviewImageURL = link.PreviewImageURL
    /\ got.Timestamp.inst = IF link.Timestamp.inst = 0 THEN now ELSE link.Timestamp.inst

\* C12 (atomic save): a SaveLink that returns success has committed the whole
\* record, GetLinksByUser returning every field of it; a SaveLink that returns
\* an error leaves the entries exactly as they were; and every record a
\* GetLinksByUser returns carries all the fields of one saved record, never
\* fields of two values of its key.
C12_AtomicSave ==
    /\ (last.op = "SaveLink" /\ last.err = NoError) =>
          LET got == Get(last.userID).links
          IN  \A link \in Links :
                 (/\ link.UserID = last.userID /\ link.URL = last.url
                  /\ link.Timestamp.inst = last.ts)
                 => /\ Positions(got, last.url) # {}
                    /\ \A i \in Positions(got, last.url) :
                          CarriesAll(got[i], link, last.now)
    /\ (last.op = "SaveLink" /\ last.err # NoError) => db = prev
    /\ last.op = "GetLinksByUser" =>
          \A i \in 1..Len(last.links) :
             \E link \in Links, now \in NowInstants :
                CarriesAll(last.links[i], link, now)

\* a SaveLink without tags and preview image has replaced a stored value that
\* had both
C12_Witness ==
    /\ last.op = "SaveLink" /\ last.err = NoError /\ last.replaced
    /\ LET key == generateLinkKey(last.userID, last.url)
       IN  /\ {"tags", "preview_image_url"} \subseteq DOMAIN prev[key]
           /\ {"tags", "preview_image_url"} \cap DOMAIN db[key] = {}

\* C13 (snapshot reads): a GetLinksByUser that ran beside committing SaveLink
\* and DeleteLink calls returns the records of its user as they were in one
\* single state of the entries committed between its begin and its return; so
\* it never holds a later write while it misses an earlier one.
C13_SnapshotRead ==
    (last.op = "GetLinksByUser" /\ reader.pc = "idle") =>
        /\ last.err = NoError
        /\ \E v \in versions : last.links = StoredLinks(v, last.userID)

\* a GetLinksByUser has returned two records after two transactions committed
\* beside it, and what it returned is no longer what is stored
C13_Witness ==
    /\ last.op = "GetLinksByUser" /\ reader.pc = "idle"
    /\ Cardinality(versions) = 3
    /\ Len(last.links) = 2
    /\ last.links # StoredLinks(db, last.userID)

\* context.Canceled
ErrCanceled == "context canceled"

\* C14 (cancellation) as stated: a SaveLink, GetLinksByUser or DeleteLink
\* called with a cancelled context returns an error that has context.Canceled
\* in its chain, and leaves the entries as they were.
C14_Cancellation ==
    (ctxDone /\ last.op \in CRUD) =>
        /\ ErrorsIs(last.err, ErrCanceled)
        /\ db = prev

\* a valid record: json encodes its timestamp, and its url is valid UTF-8
ValidLink(link) == link.Timestamp.yearInRange /\ ToValidUTF8(link.URL) = link.URL

\* C15 as stated: decoding the encoding of a valid record yields a record
\* equal to it in every field.
C15_Original ==
    (call.fn = "decoded" /\ ValidLink(call.link)) => call.decoded = call.link

\* C15 (codec round trip), amended: every valid record is encoded, and decoding
\* the encoding yields a record with the same url, title, description, userID,
\* read flag and preview image url, the same instant as timestamp and the same
\* tags in the same order; the timestamp comes back without monotonic clock
\* reading and the tags come back as nil whenever the record had none.
C15_RoundTrip ==
    /\ (call.fn = "failed") => ~ValidLink(call.link)
    /\ (call.fn = "decoded" /\ ValidLink(call.link)) =>
          LET r == call.link
              d == call.decoded
          IN  /\ d.URL = r.URL /\ d.Title = r.Title /\ d.Description = r.Description
              /\ d.UserID = r.UserID /\ d.Read = r.Read
              /\ d.PreviewImageURL = r.PreviewImageURL
              /\ d.Timestamp.inst = r.Timestamp.inst /\ ~d.Timestamp.mono
              /\ d.Tags.elems = r.Tags.elems
              /\ d.Tags.isNil <=> (r.Tags.elems = <<>>)

\* a record with an empty, non-nil tag list, no preview image, the empty url
\* and a timestamp of time.Now() has been encoded and decoded
C15_Witness ==
    /\ call.fn = "decoded"
    /\ call.link.URL = <<>> /\ call.link.PreviewImageURL = ""
    /\ ~call.link.Tags.isNil /\ call.link.Tags.elems = <<>>
    /\ call.link.Timestamp.mono
    /\ DOMAIN call.bytes = DOMAIN JSONRequired(call.link)

\* C16 (maintenance) as stated: while the store is open, the routine of the
\* value log garbage collection is running (and reclaims on every tick until
\* its context is cancelled).
C16_Maintenance == ~isClosed => gcRunning

\* C17 (maintenance non-interference) as stated: the reclaim runs go on beside
\* SaveLink, GetLinksByUser and DeleteLink: whenever one of these has returned
\* on an open store, the store is still open and the routine has not stopped.
C17_NonInterference ==
    (last.op \in CRUD /\ ~ErrorsIs(last.err, ErrDBClosed)) =>
        (~isClosed /\ gcRunning)

\* C18 as stated: ScrapeMetadata returns an error only when the fetch could
\* not complete; whenever the page has loaded it returns a nil error.
C18_Original ==
    (call.fn = "ScrapeMetadata" /\ call.pc = "returned") =>
        /\ call.err # NoError => ~call.loaded
        /\ call.loaded => (call.err = NoError /\ call.title \in {"", "T"})

\* C18 (scraper error policy), amended: ScrapeMetadata returns an error only
\* when the fetch could not complete or when closing the page or the browser
\* failed afterwards.  Whenever the page has loaded and both were closed
\* without error, the error is nil, and a missing title or description is
\* the empty string; when the page has loaded and a close failed, the error
\* is that of the close, beside the title and description extracted.
C18_ErrorPolicy ==
    (call.fn = "ScrapeMetadata" /\ call.pc = "returned") =>
        /\ call.err # NoError => (~call.loaded \/ call.closeFailed)
        /\ ~call.loaded => (call.err # NoError /\ call.title = "" /\ call.description = "")
        /\ (call.loaded /\ ~call.closeFailed) => call.err = NoError
        /\ (call.loaded /\ call.closeFailed) =>
              \/ ErrorsIs(call.err, "error closing page")
              \/ ErrorsIs(call.err, "error closing browser")
        /\ call.loaded =>
              /\ call.title = (IF call.titleWas = "text" THEN "T" ELSE "")
              /\ call.description =
                    (IF \E j \in 1..Len(call.descWas) : call.descWas[j] = "text"
                     THEN "D" ELSE "")

\* the page has loaded, it had neither title nor description, page and browser
\* were closed without error, and the call has returned
C18_Witness ==
    /\ call.fn = "ScrapeMetadata" /\ call.pc = "returned"
    /\ call.loaded /\ ~call.closeFailed
    /\ call.titleWas = "missing" /\ call.descWas = <<"missing", "missing">>
    /\ call.title = "" /\ call.description = "" /\ call.err = NoError

\* C19 (unvalidated key fields): on an open store a SaveLink of a record with
\* userID 0 or with the empty url returns success and the record is stored
\* under generateLinkKey(userID, url) and returned by GetLinksByUser(userID);
\* for the empty url that key is generateUserPrefix(userID); and a
\* DeleteLink(userID, "") returns success and removes that record and no other.
C19_Unvalidated ==
    LET key == generateLinkKey(last.userID, last.url)
        got == Get(last.userID).links
    IN  /\ (/\ last.op = "SaveLink" /\ ~isClosed
            /\ last.userID = 0 \/ last.url = <<>>)
           => /\ last.err = NoError
              /\ key \in DOMAIN db
              /\ db[key].url = last.url /\ db[key].user_id = last.userID
              /\ last.url = <<>> => key = generateUserPrefix(last.userID)
              /\ Cardinality(Positions(got, last.url)) = 1
        /\ (last.op = "DeleteLink" /\ ~isClosed /\ last.url = <<>>)
           => /\ last.err = NoError
              /\ key \notin DOMAIN db
              /\ got = Without(GetBefore(last.userID).links, <<>>)

\* DeleteLink(0, "") has removed the record stored under the scan prefix of
\* user 0, and another record of user 0 is still returned
C19_Witness ==
    /\ last.op = "DeleteLink" /\ last.userID = 0 /\ last.url = <<>>
    /\ last.stored /\ last.err = NoError
    /\ generateUserPrefix(0) \in DOMAIN prev
    /\ Len(Get(0).links) = 1

\* C20 (key prefix disjointness): the key of (A, url) begins with the scan
\* prefix of A, and with the scan prefix of no other user B, for negative user
\* ids, user ids that are decimal prefixes of each other and urls that hold
\* ":", ":link:" or "user:".
C20_PrefixDisjoint ==
    call.fn = "keys" =>
        /\ HasPrefix(call.keyA, call.prefixA)
        /\ HasPrefix(call.keyB, call.prefixB)
        /\ call.A # call.B =>
              /\ ~HasPrefix(call.keyA, call.prefixB)
              /\ ~HasPrefix(call.keyB, call.prefixA)

\* the keys and prefixes of user 1 with url "2:link:" and of user 12 have been
\* made: the digits of the two keys agree up to the delimiter
C20_Witness ==
    /\ call.fn = "keys"
    /\ call.A = 1 /\ call.B = 12
    /\ call.urlA = <<50, 58, 108, 105, 110, 107, 58>>
    /\ SubSeq(call.keyA, 1, 6) = SubSeq(call.prefixB, 1, 6)
    /\ call.keyA[8] = 108 /\ call.prefixB[8] = 58

\* C21 (key injectivity): the keys of two (userID, url) pairs are equal only if
\* the user ids are equal and the urls are equal, also for urls that hold the
\* delimiters; so only a SaveLink of the same pair writes the same key.
C21_Injective ==
    call.fn \in {"generateUserPrefix", "keys"} =>
        (call.keyA = call.keyB <=> (call.A = call.B /\ call.urlA = call.urlB))

\* the keys of (1, "2:link:") and (12, ":link:") have been made: the same text
\* but for the delimiter between user id and url
C21_Witness ==
    /\ call.fn = "generateUserPrefix"
    /\ call.A = 1 /\ call.urlA = <<50, 58, 108, 105, 110, 107, 58>>
    /\ call.B = 12 /\ call.urlB = <<58, 108, 105, 110, 107, 58>>
    /\ call.keyA # call.keyB
    /\ SubSeq(call.keyA, 1, 6) = SubSeq(call.keyB, 1, 6)

\* the goroutines whose call is for this key
WritersOf(k) ==
    { i \in DOMAIN writers : generateLinkKey(writers[i].userID, writers[i].url) = k }

\* the entry of key k is as the call of goroutine i leaves it: gone after a
\* DeleteLink, the whole record of the call after a SaveLink
EffectOf(i, k) ==
    IF writers[i].op = "DeleteLink" THEN k \notin DOMAIN db
    ELSE /\ k \in DOMAIN db
         /\ CarriesAll(Unmarshal(db[k]).link, writers[i].link, writers[i].now)

\* C22 (concurrent writes): when concurrent SaveLink and DeleteLink calls have
\* all returned, all have succeeded; a key that one call addressed is as that
\* call leaves it, whatever the interleaving, and a key no call addressed is
\* as it was; a key several calls addressed is as one of them leaves it, and
\* after SaveLink calls only, GetLinksByUser returns exactly one record of
\* that url.
C22_ConcurrentWrites ==
    (writers # NoWriters /\ \A i \in DOMAIN writers : writers[i].pc = "returned") =>
        /\ \A i \in DOMAIN writers : writers[i].err = NoError
        /\ \A k \in DOMAIN StartEntries : WritersOf(k) = {} =>
              (k \in DOMAIN db /\ db[k] = StartEntries[k])
        /\ \A k \in DOMAIN db : WritersOf(k) = {} => k \in DOMAIN StartEntries
        /\ \A i \in DOMAIN writers :
              LET k == generateLinkKey(writers[i].userID, writers[i].url)
              IN  /\ \E j \in WritersOf(k) : EffectOf(j, k)
                  /\ (\A j \in WritersOf(k) : writers[j].op = "SaveLink") =>
                        Cardinality(Positions(StoredLinks(db, writers[i].userID),
                                              writers[i].url)) = 1

\* two goroutines have saved different records of the pair (12, "a") and a
\* third has deleted (12, "b"): all have returned, and the record of the
\* first goroutine is the one stored, the second having committed before it
C22_Witness ==
    /\ writers # NoWriters /\ \A i \in DOMAIN writers : writers[i].pc = "returned"
    /\ writers[1].op = "SaveLink" /\ writers[2].op = "SaveLink"
    /\ writers[1].key = writers[2].key /\ writers[1].val # writers[2].val
    /\ writers[3].op = "DeleteLink" /\ writers[3].url = <<98>>
    /\ db[writers[1].key] = writers[1].val
    /\ writers[1].snapshot = StartEntries

\* the pairs of positions of links that hold records of equal timestamps
Ties(links) ==
    { p \in (1..Len(links)) \X (1..Len(links)) :
        p[1] < p[2] /\ links[p[1]].Timestamp.inst = links[p[2]].Timestamp.inst }

\* C23: the records of one user that have equal timestamps are returned in
\* the order of their keys, which is the order of the scan, so that a second
\* GetLinksByUser with no write in between returns the records of the first
\* in the same order
C23_StableTies ==
    (last.op = "GetLinksByUser" /\ last.err = NoError) =>
        /\ Get(last.userID).links = last.links
        /\ \A p \in Ties(last.links) :
              BytesLess(generateLinkKey(last.userID, last.links[p[1]].URL),
                        generateLinkKey(last.userID, last.links[p[2]].URL))

\* three records of one user were returned, all of one timestamp
C23_Witness ==
    /\ last.op = "GetLinksByUser"
    /\ last.err = NoError
    /\ Len(last.links) = 3
    /\ Cardinality(Ties(last.links)) = 3
    /\ db = prev

\* the key derived from the record that the value of an entry decodes to
KeyOfValue(val) ==
    LET link == Unmarshal(val).link
    IN  generateLinkKey(link.UserID, link.URL)

\* C24 as stated: in every reachable state, the value of each stored entry
\* decodes, and the key derived from the user id and url of the decoded
\* record is the key of the entry.
C24_KeyValueConsistent ==
    \A k \in DOMAIN db :
        /\ Unmarshal(db[k]).err = NoError
        /\ KeyOfValue(db[k]) = k

\* C25: GetLinksByUser, returning records or an error, leaves every stored
\* entry as it was, and a second GetLinksByUser for the same user with no
\* write in between returns what the first returned
C25_ReadOnly ==
    last.op = "GetLinksByUser" =>
        /\ db = prev
        /\ Get(last.userID) = [links |-> last.links, err |-> last.err]

\* GetLinksByUser(12) has failed on an open store that holds records of users
\* 1 and 12, and GetLinksByUser(1) returns a record
C25_Witness ==
    /\ last.op = "GetLinksByUser" /\ last.userID = 12
    /\ ~isClosed /\ last.err # NoError
    /\ Cardinality(KeysOf(12)) = 2
    /\ Len(Get(1).links) = 1
    /\ db = prev

\* C26 as stated: the store is closed at most once, only after the signal has
\* made the context done, and not while the bot started with that context is
\* still starting or polling or one of its handlers is running.
C26_ShutdownOrder ==
    call.fn = "main" =>
        /\ call.closes <= 1
        /\ isClosed => call.ctx = "done"
        /\ isClosed => (call.bot \notin {"started", "polling"} /\ call.handlers = NoHandlers)

===========================================================================
